---- MODULE Spec2Model ----
(***************************************************************************)
(* Connection / readiness lifecycle of StreamDeckHandlerBase and the event *)
(* routing of EventManager (thorwe/Stream-Deck-TS-SDK).                    *)
(*                                                                         *)
(* JavaScript runs every handler to completion, so each action below is    *)
(* one whole handler (host entry point, socket callback, timer, DOM event  *)
(* or a call made by plugin code), including every callback that the       *)
(* handler invokes synchronously.  An exception thrown inside a handler    *)
(* unwinds it: the assignments made before the throw stay, the statements  *)
(* after it are skipped.  This is modelled by threading a record m of the  *)
(* mutable fields through the operators; m.raised is the pending           *)
(* exception.                                                              *)
(***************************************************************************)
EXTENDS Integers, Sequences, FiniteSets, TLC

VARIABLES
    sockets,                \* readyState of every WebSocket created so far
    ws,                     \* this._ws: 0 = undefined, else index into sockets
    cachedEvents,           \* this._cachedEvents
    documentReady,          \* this._documentReady
    connectionReady,        \* this._connectionReady
    globalSettingsReady,    \* this._globalSettingsReady
    documentReadyInvoked,   \* this._documentReadyInvoked
    connectionReadyInvoked, \* this._connectionReadyInvoked
    globalSettingsInvoked,  \* this._globalSettingsInvoked
    onReadyInvoked,         \* this._onReadyInvoked
    registeredEvents,       \* EventManager.registeredEvents
    globalSettings,         \* what cacheGlobalSettings was last handed
    docState,               \* document.readyState
    timers,                 \* pending setTimeout(() => fn(), 1) callbacks
    listeners,              \* pending DOMContentLoaded listeners
    wire,                   \* frames accepted by a transport, in order
    sendLog,                \* every call of send(): the frame and the transport state
    emitted,                \* lifecycle notifications passed to callEvents
    last                    \* the handler that ran last, and what it did

vars == <<sockets, ws, cachedEvents, documentReady, connectionReady,
          globalSettingsReady, documentReadyInvoked, connectionReadyInvoked,
          globalSettingsInvoked, onReadyInvoked, registeredEvents,
          globalSettings, docState, timers, listeners, wire, sendLog,
          emitted, last>>

\* The fields the program itself owns (no history, no environment).
progVars == <<sockets, ws, cachedEvents, documentReady, connectionReady,
              globalSettingsReady, documentReadyInvoked,
              connectionReadyInvoked, globalSettingsInvoked, onReadyInvoked,
              registeredEvents, globalSettings, timers, listeners>>

----------------------------------------------------------------------------
(* Bounds of the model *)

MaxSends == 2       \* calls of send() made by plugin code outside callbacks
MaxSubs == 2        \* subscriptions created
MaxConnects == 2    \* invocations of the entry point, where the host repeats it

----------------------------------------------------------------------------
(* Values *)

Undefined == "undefined"
WildcardMarker == "*"
Uuid == "uuid"
RegisterEventName == "registerPlugin"
NotAString == "<number>"   \* stands for an actionName that is not a string

\* Notifications the handler itself passes to callEvents.
Notifications == {"connectionOpened", "documentLoaded",
                  "globalSettingsAvailable", "setupReady", "connectionClosed"}

\* Event names the router is asked about.
EventNames == {"connectionOpened", "documentLoaded", "globalSettingsAvailable",
               "setupReady", "connectionClosed", "registerPi",
               "didReceiveGlobalSettings", "keyDown"}

\* The subscriptions plugin code sets up: <<event, action filter, what the
\* handler does when it fires>>.  The handler base subscribes its own
\* methods with the marker; action classes pass their action identifier.
Subscriptions ==
    {<<"connectionOpened", WildcardMarker, "send">>,
     <<"documentLoaded", WildcardMarker, "send">>,
     <<"documentLoaded", WildcardMarker, "nop">>,
     <<"didReceiveGlobalSettings", WildcardMarker, "nop">>,
     <<"keyDown", WildcardMarker, "nop">>,
     <<"keyDown", "a1", "nop">>,
     <<"keyDown", NotAString, "nop">>}

\* Subscriptions whose handler throws when it fires.
RaisingSubscriptions ==
    {<<"connectionOpened", WildcardMarker, "throw">>,
     <<"globalSettingsAvailable", WildcardMarker, "throw">>}

\* Inbound frame texts: one that JSON.parse rejects, the reserved settings
\* frame with and without payload, and keyDown frames whose action is
\* absent, an action identifier, the empty string or the marker itself.
Frame(e, a, p) == [text |-> "json", event |-> e, action |-> a, payload |-> p]
InboundFrames ==
    {[text |-> "malformed", event |-> Undefined, action |-> Undefined,
      payload |-> Undefined]}
    \cup {Frame("didReceiveGlobalSettings", Undefined, p) :
              p \in {Undefined, "s1"}}
    \cup {Frame("keyDown", a, Undefined) :
              a \in {Undefined, "a1", "a2", "", WildcardMarker}}

----------------------------------------------------------------------------
(* The mutable fields as one record *)

Cur == [sockets |-> sockets, ws |-> ws, cachedEvents |-> cachedEvents,
        documentReady |-> documentReady, connectionReady |-> connectionReady,
        globalSettingsReady |-> globalSettingsReady,
        documentReadyInvoked |-> documentReadyInvoked,
        connectionReadyInvoked |-> connectionReadyInvoked,
        globalSettingsInvoked |-> globalSettingsInvoked,
        onReadyInvoked |-> onReadyInvoked,
        globalSettings |-> globalSettings,
        wire |-> wire, sendLog |-> sendLog, emitted |-> emitted,
        log |-> <<>>, raised |-> FALSE]

Commit(m, op, arg) ==
    /\ sockets' = m.sockets
    /\ ws' = m.ws
    /\ cachedEvents' = m.cachedEvents
    /\ documentReady' = m.documentReady
    /\ connectionReady' = m.connectionReady
    /\ globalSettingsReady' = m.globalSettingsReady
    /\ documentReadyInvoked' = m.documentReadyInvoked
    /\ connectionReadyInvoked' = m.connectionReadyInvoked
    /\ globalSettingsInvoked' = m.globalSettingsInvoked
    /\ onReadyInvoked' = m.onReadyInvoked
    /\ globalSettings' = m.globalSettings
    /\ wire' = m.wire
    /\ sendLog' = m.sendLog
    /\ emitted' = m.emitted
    /\ last' = [op |-> op, arg |-> arg, log |-> m.log, threw |-> m.raised]

Throw(m) == [m EXCEPT !.raised = TRUE]

LogEntry(t, e, i, a) == [t |-> t, event |-> e, idx |-> i, action |-> a]

----------------------------------------------------------------------------
(* The transport (WebSocket) *)

\* The state send() finds the transport in.
TransportState(m) == IF m.ws = 0 THEN "NONE" ELSE m.sockets[m.ws]

\* JSON.stringify of {event, ...data}: the text of the frame.  n is the
\* number of the send() call that built it; it stands for the part of the
\* data that makes every frame distinct, so that order can be read off.
JSON_stringify(obj) == <<"json", obj.event, obj.data, obj.n>>

\* this._ws.send(text): a WebSocket that is still CONNECTING throws
\* InvalidStateError, an OPEN one transmits, a closed one discards the data.
WebSocket_send(m, text) ==
    CASE m.sockets[m.ws] = "CONNECTING" -> Throw(m)
      [] m.sockets[m.ws] = "OPEN" ->
            [m EXCEPT !.wire = Append(@, [ws |-> m.ws, text |-> text])]
      [] OTHER -> m

\* send(event, data)
send(m, event, data) ==
    IF m.raised THEN m
    ELSE LET eventToSend == [event |-> event, data |-> data,
                             n |-> Len(m.sendLog) + 1]
             text == JSON_stringify(eventToSend)
             st == TransportState(m)
             logged == [m EXCEPT !.sendLog =
                          Append(@, [text |-> text, state |-> st])]
         IN  IF m.ws # 0
             THEN WebSocket_send(logged, text)
             ELSE [logged EXCEPT !.cachedEvents = Append(@, text)]

\* requestGlobalSettings()
requestGlobalSettings(m) == send(m, "getGlobalSettings", Uuid)

----------------------------------------------------------------------------
(* EventManager *)

\* A registered callback is the wrapper built by DefaultDecoratorEventListener:
\* it closes over the action filter and the decorated method.
Wrapper(actionName, act) == [actionName |-> actionName, act |-> act]

\* !eventActionName
Falsy(x) == x = ""

\* descriptor.value.apply(instance, params): the subscriber's handler runs.
descriptor_apply(m, cb, event, i) ==
    LET fired == [m EXCEPT !.log =
                     Append(@, LogEntry("fire", event, i, cb.actionName))]
    IN  IF cb.act = "send"
        THEN send(fired, "logMessage", "message")
        ELSE IF cb.act = "throw"
             THEN Throw(fired)
             ELSE fired

fixVariant == 1

\* The plausible slip: the first branch does not return.
ListenerNoReturn(m, cb, event, i, eventActionName) ==
    LET m1 == IF \/ Falsy(eventActionName)
                 \/ cb.actionName = WildcardMarker
                 \/ cb.actionName = eventActionName
              THEN descriptor_apply(m, cb, event, i)
              ELSE m
    IN  IF m1.raised THEN m1
        ELSE IF \/ Falsy(eventActionName)
                \/ eventActionName = WildcardMarker
                \/ cb.actionName = eventActionName
             THEN descriptor_apply(m1, cb, event, i)
             ELSE m1

\* The callback registered by eventListener, called with (eventActionName,
\* ...params).
Listener(m, cb, event, i, eventActionName) ==
    IF \/ Falsy(eventActionName)
       \/ cb.actionName = WildcardMarker
       \/ cb.actionName = eventActionName
    THEN descriptor_apply(m, cb, event, i)
    ELSE IF fixVariant = 1
         THEN IF \/ Falsy(eventActionName)
                 \/ eventActionName = WildcardMarker
                 \/ cb.actionName = eventActionName
              THEN descriptor_apply(m, cb, event, i)
              ELSE m
         ELSE IF \/ Falsy(eventActionName)
                 \/ cb.actionName = WildcardMarker
                 \/ eventActionName = WildcardMarker
                 \/ cb.actionName = eventActionName
              THEN descriptor_apply(m, cb, event, i)
              ELSE m

\* this.registeredEvents.get(eventName): undefined and [] behave alike under
\* ?.forEach, so a missing key is the empty list.
Registered(eventName) ==
    IF eventName \in DOMAIN registeredEvents
    THEN registeredEvents[eventName]
    ELSE <<>>

\* Array.prototype.forEach over the callbacks: a throw ends the loop.
RECURSIVE forEach(_, _, _, _)
forEach(m, eventName, actionName, i) ==
    IF m.raised \/ i > Len(Registered(eventName))
    THEN m
    ELSE forEach(Listener([m EXCEPT !.log =
                              Append(@, LogEntry("call", eventName, i,
                                                 actionName))],
                          Registered(eventName)[i], eventName, i, actionName),
                 eventName, actionName, i + 1)

\* callEvents(eventName, actionName = '*', ...params)
callEvents(m, eventName, actionName) ==
    IF m.raised THEN m
    ELSE forEach([m EXCEPT
                     !.log = Append(@, LogEntry("emit", eventName, 0,
                                                actionName)),
                     !.emitted = IF eventName \in Notifications
                                 THEN Append(@, eventName) ELSE @],
                 eventName, actionName, 1)

\* registerEvent(eventName, callback)
registerEvent(regs, eventName, callback) ==
    [regs EXCEPT ![eventName] = Append(@, callback)]

typeof(x) == IF x = NotAString THEN "number" ELSE "string"

----------------------------------------------------------------------------
(* StreamDeckHandlerBase: readiness *)

\* if (this._connectionReady && !this._connectionReadyInvoked) ...
emitConnectionOpened(m) ==
    IF ~m.raised /\ m.connectionReady /\ ~m.connectionReadyInvoked
    THEN callEvents([m EXCEPT !.connectionReadyInvoked = TRUE],
                    "connectionOpened", WildcardMarker)
    ELSE m

\* if (this._documentReady && !this._documentReadyInvoked) ...
emitDocumentLoaded(m) ==
    IF ~m.raised /\ m.documentReady /\ ~m.documentReadyInvoked
    THEN callEvents([m EXCEPT !.documentReadyInvoked = TRUE],
                    "documentLoaded", WildcardMarker)
    ELSE m

\* The plausible slip: the latch is never set.
emitGlobalSettingsAvailableNoLatch(m) ==
    IF ~m.raised /\ m.globalSettingsReady /\ ~m.globalSettingsInvoked
    THEN callEvents(m, "globalSettingsAvailable", WildcardMarker)
    ELSE m

\* if (this._globalSettingsReady && !this._globalSettingsInvoked) ...
emitGlobalSettingsAvailable(m) ==
    IF ~m.raised /\ m.globalSettingsReady /\ ~m.globalSettingsInvoked
    THEN callEvents([m EXCEPT !.globalSettingsInvoked = TRUE],
                    "globalSettingsAvailable", WildcardMarker)
    ELSE m

\* The plausible slip: the document latch is left out of the condition.
emitSetupReadyNoDocument(m) ==
    IF /\ ~m.raised
       /\ m.globalSettingsInvoked /\ m.connectionReadyInvoked
       /\ ~m.onReadyInvoked
    THEN callEvents([m EXCEPT !.onReadyInvoked = TRUE],
                    "setupReady", WildcardMarker)
    ELSE m

\* if (this._globalSettingsInvoked && this._documentReadyInvoked &&
\*     this._connectionReadyInvoked && !this._onReadyInvoked) ...
emitSetupReady(m) ==
    IF /\ ~m.raised
       /\ m.globalSettingsInvoked /\ m.documentReadyInvoked
       /\ m.connectionReadyInvoked /\ ~m.onReadyInvoked
    THEN callEvents([m EXCEPT !.onReadyInvoked = TRUE],
                    "setupReady", WildcardMarker)
    ELSE m

\* The plausible slip: the setupReady step is evaluated first, before the
\* steps that set the three latches.
handleReadyStateSetupFirst(m) ==
    emitGlobalSettingsAvailable(
        emitDocumentLoaded(
            emitConnectionOpened(
                emitSetupReady(m))))

\* _handleReadyState()
handleReadyState(m) ==
    emitSetupReady(
        emitGlobalSettingsAvailable(
            emitDocumentLoaded(
                emitConnectionOpened(m))))

\* The callback handed to _docReady:
\* () => { this._documentReady = true; this._handleReadyState(); }
documentReadyCallback(m) ==
    handleReadyState([m EXCEPT !.documentReady = TRUE])

----------------------------------------------------------------------------
(* StreamDeckHandlerBase: connection *)

\* for (let cachedEvent of this._cachedEvents) this._ws.send(cachedEvent);
RECURSIVE resend(_, _)
resend(m, i) ==
    IF m.raised \/ i > Len(m.cachedEvents)
    THEN m
    ELSE resend(WebSocket_send(m, m.cachedEvents[i]), i + 1)

\* The plausible slip: the cached events are resent before the registration.
openResendFirst(m) ==
    LET m1 == IF Len(m.cachedEvents) >= 1 THEN resend(m, 1) ELSE m
        m2 == send(m1, RegisterEventName, Uuid)
        m3 == IF m2.raised THEN m2
              ELSE handleReadyState([m2 EXCEPT !.connectionReady = TRUE])
    IN  requestGlobalSettings(m3)

\* The plausible slip: the settings are requested right after the
\* registration, before the cached events are resent.
openRequestsFirst(m) ==
    LET m1 == send(m, RegisterEventName, Uuid)
        m2 == requestGlobalSettings(m1)
        m3 == IF ~m2.raised /\ Len(m2.cachedEvents) >= 1
              THEN resend(m2, 1)
              ELSE m2
    IN  IF m3.raised THEN m3
        ELSE handleReadyState([m3 EXCEPT !.connectionReady = TRUE])

\* The plausible slip: the readiness is evaluated before connectionReady is
\* set.
openReadyLate(m) ==
    LET m1 == send(m, RegisterEventName, Uuid)
        m2 == IF ~m1.raised /\ Len(m1.cachedEvents) >= 1
              THEN resend(m1, 1)
              ELSE m1
        m3 == IF m2.raised THEN m2
              ELSE LET r == handleReadyState(m2)
                   IN  IF r.raised THEN r
                       ELSE [r EXCEPT !.connectionReady = TRUE]
    IN  requestGlobalSettings(m3)

\* _open()
open(m) ==
    LET m1 == send(m, RegisterEventName, Uuid)
        m2 == IF ~m1.raised /\ Len(m1.cachedEvents) >= 1
              THEN resend(m1, 1)
              ELSE m1
        m3 == IF m2.raised THEN m2
              ELSE handleReadyState([m2 EXCEPT !.connectionReady = TRUE])
    IN  requestGlobalSettings(m3)

\* The plausible slip: the close handler takes the readiness back.
oncloseResets(m) ==
    callEvents([m EXCEPT !.connectionReady = FALSE],
               "connectionClosed", WildcardMarker)

\* The plausible slip: the close handler reconnects.
oncloseRetries(m) ==
    LET m1 == callEvents(m, "connectionClosed", WildcardMarker)
    IN  IF m1.raised THEN m1
        ELSE [m1 EXCEPT !.sockets = Append(@, "CONNECTING"),
                        !.ws = Len(m1.sockets) + 1]

\* this._ws.onclose = () => { this._eventManager.callEvents('connectionClosed'); }
onclose(m) == callEvents(m, "connectionClosed", WildcardMarker)

\* _connectElgatoStreamDeckSocket(): this._ws = new WebSocket(...)
connectSocket(m) ==
    [m EXCEPT !.sockets = Append(@, "CONNECTING"), !.ws = Len(m.sockets) + 1]

----------------------------------------------------------------------------
(* StreamDeckHandlerBase: inbound frames *)

\* The action name _eventHandler passes on: eventData.action ?? '*'
ForwardedAction(ev) ==
    IF ev.action = Undefined THEN WildcardMarker ELSE ev.action

\* The plausible slip: the frame is forwarded first and the settings are
\* cached, and the readiness re-evaluated, afterwards.
eventHandlerForwardsFirst(m, ev) ==
    IF ev.text = "malformed"
    THEN Throw(m)
    ELSE LET m1 == callEvents(m, ev.event, ForwardedAction(ev))
         IN  IF m1.raised \/ ev.event # "didReceiveGlobalSettings"
             THEN m1
             ELSE IF ev.payload = Undefined
                  THEN Throw(m1)
                  ELSE handleReadyState(
                           [m1 EXCEPT !.globalSettings = ev.payload,
                                      !.globalSettingsReady = TRUE])

\* The plausible slip: a frame that does not parse ends the connection.
eventHandlerClosesOnError(m, ev) ==
    IF ev.text = "malformed"
    THEN Throw([m EXCEPT !.sockets[m.ws] = "CLOSED"])
    ELSE LET m1 == IF ev.event = "didReceiveGlobalSettings"
                   THEN IF ev.payload = Undefined
                        THEN Throw(m)
                        ELSE handleReadyState(
                                 [m EXCEPT !.globalSettings = ev.payload,
                                           !.globalSettingsReady = TRUE])
                   ELSE m
         IN  callEvents(m1, ev.event, ForwardedAction(ev))

\* _eventHandler(ev): JSON.parse throws on a text that is no JSON; reading
\* eventData.payload.settings throws when the frame has no payload.
eventHandler(m, ev) ==
    IF ev.text = "malformed"
    THEN Throw(m)
    ELSE LET m1 == IF ev.event = "didReceiveGlobalSettings"
                   THEN IF ev.payload = Undefined
                        THEN Throw(m)
                        ELSE handleReadyState(
                                 [m EXCEPT !.globalSettings = ev.payload,
                                           !.globalSettingsReady = TRUE])
                   ELSE m
         IN  callEvents(m1, ev.event, ForwardedAction(ev))

----------------------------------------------------------------------------
(* The handshake entry point *)

\* window.connectElgatoStreamDeckSocket(port, uuid, registerEvent, info,
\* actionInfo), up to the call of _docReady.
connectElgatoStreamDeckSocket(m, actionInfo) ==
    LET m1 == IF actionInfo
              THEN callEvents(m, "registerPi", WildcardMarker)
              ELSE m
    IN  IF m1.raised THEN m1 ELSE connectSocket(m1)

\* _docReady(fn): a timer when the document is past loading, a
\* DOMContentLoaded listener otherwise.
docReady ==
    IF docState = "complete" \/ docState = "interactive"
    THEN timers' = timers + 1 /\ UNCHANGED listeners
    ELSE listeners' = listeners + 1 /\ UNCHANGED timers

\* The DOMContentLoaded listeners run one after another; an exception in one
\* is reported and the next one still runs.
RECURSIVE dispatchDOMContentLoaded(_, _)
dispatchDOMContentLoaded(m, n) ==
    IF n = 0 THEN m
    ELSE dispatchDOMContentLoaded(
             [documentReadyCallback([m EXCEPT !.raised = FALSE])
                 EXCEPT !.raised = @ \/ m.raised],
             n - 1)

----------------------------------------------------------------------------
(* Actions: one per handler *)

Init ==
    /\ sockets = <<>>
    /\ ws = 0
    /\ cachedEvents = <<>>
    /\ documentReady = FALSE
    /\ connectionReady = FALSE
    /\ globalSettingsReady = FALSE
    /\ documentReadyInvoked = FALSE
    /\ connectionReadyInvoked = FALSE
    /\ globalSettingsInvoked = FALSE
    /\ onReadyInvoked = FALSE
    /\ registeredEvents = [e \in EventNames |-> <<>>]
    /\ globalSettings = Undefined
    /\ docState \in {"loading", "interactive", "complete"}
    /\ timers = 0
    /\ listeners = 0
    /\ wire = <<>>
    /\ sendLog = <<>>
    /\ emitted = <<>>
    /\ last = [op |-> "init", arg |-> Undefined, log |-> <<>>, threw |-> FALSE]

NumSubs ==
    LET RECURSIVE Sum(_)
        Sum(S) == IF S = {} THEN 0
                  ELSE LET e == CHOOSE x \in S : TRUE
                       IN  Len(registeredEvents[e]) + Sum(S \ {e})
    IN  Sum(EventNames)

NumUserSends ==
    Cardinality({i \in DOMAIN sendLog : sendLog[i].text[2] = "setSettings"})

\* The plausible slip: the wrapper is registered first and the type of the
\* action filter is tested afterwards.
SubscribeRegistersFirst(event, actionName, act) ==
    /\ NumSubs < MaxSubs
    /\ Len(sockets) = 0
    /\ registeredEvents' =
           registerEvent(registeredEvents, event, Wrapper(actionName, act))
    /\ last' = [op |-> "eventListener",
                arg |-> [event |-> event, action |-> actionName],
                log |-> <<>>, threw |-> typeof(actionName) # "string"]
    /\ UNCHANGED <<sockets, ws, cachedEvents, documentReady, connectionReady,
                   globalSettingsReady, documentReadyInvoked,
                   connectionReadyInvoked, globalSettingsInvoked,
                   onReadyInvoked, globalSettings, docState, timers,
                   listeners, wire, sendLog, emitted>>

\* Subscription setup: the eventListener built by
\* DefaultDecoratorEventListener(event, ...) is called with an action filter.
Subscribe(event, actionName, act) ==
    /\ NumSubs < MaxSubs
    /\ Len(sockets) = 0
    /\ IF typeof(actionName) # "string"
       THEN /\ UNCHANGED registeredEvents
            /\ last' = [op |-> "eventListener",
                        arg |-> [event |-> event, action |-> actionName],
                        log |-> <<>>, threw |-> TRUE]
       ELSE /\ registeredEvents' =
                   registerEvent(registeredEvents, event,
                                 Wrapper(actionName, act))
            /\ last' = [op |-> "eventListener",
                        arg |-> [event |-> event, action |-> actionName],
                        log |-> <<>>, threw |-> FALSE]
    /\ UNCHANGED <<sockets, ws, cachedEvents, documentReady, connectionReady,
                   globalSettingsReady, documentReadyInvoked,
                   connectionReadyInvoked, globalSettingsInvoked,
                   onReadyInvoked, globalSettings, docState, timers,
                   listeners, wire, sendLog, emitted>>

\* Plugin code calls send() (here: setSettings) outside any callback.
UserSend ==
    /\ NumUserSends < MaxSends
    /\ Commit(send(Cur, "setSettings", "settings"), "send", Undefined)
    /\ UNCHANGED <<registeredEvents, docState, timers, listeners>>

\* The plausible slip: with the document past loading the callback of
\* _docReady is called at once instead of from a timer.
ConnectDocReadySync(actionInfo) ==
    /\ Len(sockets) = 0
    /\ LET m == connectElgatoStreamDeckSocket(Cur, actionInfo)
       IN  IF m.raised
           THEN Commit(m, "connect", Undefined)
                /\ UNCHANGED <<timers, listeners>>
           ELSE IF docState = "complete" \/ docState = "interactive"
                THEN Commit(documentReadyCallback(m), "connect", Undefined)
                     /\ UNCHANGED <<timers, listeners>>
                ELSE Commit(m, "connect", Undefined)
                     /\ listeners' = listeners + 1 /\ UNCHANGED timers
    /\ UNCHANGED <<registeredEvents, docState>>

\* The host invokes connectElgatoStreamDeckSocket, once per process.
Connect(actionInfo) ==
    /\ Len(sockets) = 0
    /\ LET m == connectElgatoStreamDeckSocket(Cur, actionInfo)
       IN  /\ Commit(m, "connect", Undefined)
           /\ IF m.raised THEN UNCHANGED <<timers, listeners>> ELSE docReady
    /\ UNCHANGED <<registeredEvents, docState>>

\* The transport opens: this._ws.onopen = () => this._open()
OnOpen(i) ==
    /\ sockets[i] = "CONNECTING"
    /\ Commit(open([Cur EXCEPT !.sockets[i] = "OPEN"]), "open", Undefined)
    /\ UNCHANGED <<registeredEvents, docState, timers, listeners>>

\* The transport closes (a failed connect or the end of an open connection).
OnClose(i) ==
    /\ sockets[i] \in {"CONNECTING", "OPEN"}
    /\ Commit(onclose([Cur EXCEPT !.sockets[i] = "CLOSED"]), "close",
              Undefined)
    /\ UNCHANGED <<registeredEvents, docState, timers, listeners>>

\* A frame arrives: this._ws.onmessage = ev => this._eventHandler(ev)
OnMessage(i, ev) ==
    /\ sockets[i] = "OPEN"
    /\ Commit(eventHandler(Cur, ev), "message", ev)
    /\ UNCHANGED <<registeredEvents, docState, timers, listeners>>

\* The timer set by _docReady fires.
OnTimer ==
    /\ timers > 0
    /\ timers' = timers - 1
    /\ Commit(documentReadyCallback(Cur), "timer", Undefined)
    /\ UNCHANGED <<registeredEvents, docState, listeners>>

\* The document finishes parsing: DOMContentLoaded is dispatched.
OnDOMContentLoaded ==
    /\ docState = "loading"
    /\ docState' = "interactive"
    /\ listeners' = 0
    /\ Commit(dispatchDOMContentLoaded(Cur, listeners), "DOMContentLoaded",
              Undefined)
    /\ UNCHANGED <<registeredEvents, timers>>

\* The document finishes loading; nothing of the program listens.
OnLoad ==
    /\ docState = "interactive"
    /\ docState' = "complete"
    /\ last' = [op |-> "load", arg |-> Undefined, log |-> <<>>,
                threw |-> FALSE]
    /\ UNCHANGED <<sockets, ws, cachedEvents, documentReady, connectionReady,
                   globalSettingsReady, documentReadyInvoked,
                   connectionReadyInvoked, globalSettingsInvoked,
                   onReadyInvoked, registeredEvents, globalSettings, timers,
                   listeners, wire, sendLog, emitted>>

Next ==
    \/ \E s \in Subscriptions : Subscribe(s[1], s[2], s[3])
    \/ UserSend
    \/ \E actionInfo \in BOOLEAN : Connect(actionInfo)
    \/ \E i \in DOMAIN sockets : OnOpen(i)
    \/ \E i \in DOMAIN sockets : OnClose(i)
    \/ \E i \in DOMAIN sockets, ev \in InboundFrames : OnMessage(i, ev)
    \/ OnTimer
    \/ OnDOMContentLoaded
    \/ OnLoad

Spec == Init /\ [][Next]_vars

----------------------------------------------------------------------------
(* The same program with plugin code whose handlers may throw *)

SubscribeRaising ==
    \E s \in RaisingSubscriptions : Subscribe(s[1], s[2], s[3])

NextRaise ==
    \/ Next
    \/ SubscribeRaising

SpecRaise == Init /\ [][NextRaise]_vars

----------------------------------------------------------------------------
(* The same program with a host that invokes the entry point again *)

\* connectElgatoStreamDeckSocket is invoked once more: a new socket replaces
\* this._ws (the earlier one keeps its handlers) and _docReady is called
\* again.
Reconnect(actionInfo) ==
    /\ Len(sockets) >= 1
    /\ Len(sockets) < MaxConnects
    /\ LET m == connectElgatoStreamDeckSocket(Cur, actionInfo)
       IN  /\ Commit(m, "connect", Undefined)
           /\ IF m.raised THEN UNCHANGED <<timers, listeners>> ELSE docReady
    /\ UNCHANGED <<registeredEvents, docState>>

\* The steps of Next but the subscription setup (the plugin subscribes to
\* nothing), and the repeated invocation.
NextReinvoke ==
    \/ UserSend
    \/ \E actionInfo \in BOOLEAN : Connect(actionInfo)
    \/ \E actionInfo \in BOOLEAN : Reconnect(actionInfo)
    \/ \E i \in DOMAIN sockets : OnOpen(i)
    \/ \E i \in DOMAIN sockets : OnClose(i)
    \/ \E i \in DOMAIN sockets, ev \in InboundFrames : OnMessage(i, ev)
    \/ OnTimer
    \/ OnDOMContentLoaded
    \/ OnLoad

SpecReinvoke == Init /\ [][NextReinvoke]_vars

----------------------------------------------------------------------------
(* Helpers for the properties *)

\* How many times notification e was passed to callEvents.
Count(e) == Cardinality({i \in DOMAIN emitted : emitted[i] = e})

\* Whether notification e was emitted before position i.
EmittedBefore(e, i) == \E j \in 1..(i - 1) : emitted[j] = e

\* The entries of the last handler's log of kind t about event e.
LogOf(t, e) ==
    SelectSeq(last.log, LAMBDA x : x.t = t /\ x.event = e)

Prerequisites == {"connectionOpened", "documentLoaded",
                  "globalSettingsAvailable"}

----------------------------------------------------------------------------
(* C1 *)

\* C1: setupReady is emitted at most once; when it is emitted,
\* connectionOpened, documentLoaded and globalSettingsAvailable have each
\* been emitted before it; and once the three flags are all true (in
\* whichever order they became true) it has been emitted, so it is emitted
\* exactly once.
C1_SetupReadyOnceAfterAll ==
    /\ Count("setupReady") <= 1
    /\ \A i \in DOMAIN emitted :
           emitted[i] = "setupReady" =>
               \A e \in Prerequisites : EmittedBefore(e, i)
    /\ (documentReady /\ connectionReady /\ globalSettingsReady) =>
           Count("setupReady") = 1

\* The document became ready last: setupReady follows documentLoaded, which
\* follows the two other notifications.
C1_Witness ==
    emitted = <<"connectionOpened", "globalSettingsAvailable",
                "documentLoaded", "setupReady">>

\* The two other orders the flags can become true in.
C1_WitnessDocumentFirst ==
    emitted = <<"documentLoaded", "connectionOpened",
                "globalSettingsAvailable", "setupReady">>

C1_WitnessDocumentSecond ==
    emitted = <<"connectionOpened", "documentLoaded",
                "globalSettingsAvailable", "setupReady">>

----------------------------------------------------------------------------
(* C2 *)

\* The handler that ran last was the delivery of a well-formed reserved
\* settings frame that found globalSettingsReady already latched.
SettingsFrameAgain ==
    /\ last.op = "message"
    /\ last.arg.event = "didReceiveGlobalSettings"
    /\ ~last.threw
    /\ LogOf("emit", "globalSettingsAvailable") = <<>>

\* C2: connectionOpened, documentLoaded and globalSettingsAvailable are each
\* emitted at most once, and a reserved settings frame received when the
\* flag is already true emits neither globalSettingsAvailable nor
\* setupReady (nor any other lifecycle notification).
C2_NoDoubleFire ==
    /\ \A e \in Prerequisites : Count(e) <= 1
    /\ SettingsFrameAgain =>
           /\ Count("globalSettingsAvailable") = 1
           /\ \A e \in Notifications : LogOf("emit", e) = <<>>

\* A second settings frame has been handled after all four notifications.
C2_Witness ==
    /\ SettingsFrameAgain
    /\ globalSettingsReady
    /\ Count("setupReady") = 1

----------------------------------------------------------------------------
(* C3, C4, C5 *)

\* The text of the registration frame; n is the number of the send call.
IsRegistration(text) == text[2] = RegisterEventName /\ text[3] = Uuid

\* The texts handed to the transport, in order.
WireTexts == [i \in DOMAIN wire |-> wire[i].text]

\* The texts passed to send() while the transport was not open yet.
SentBeforeOpen ==
    LET pre == SelectSeq(sendLog,
                         LAMBDA x : x.state \in {"NONE", "CONNECTING"})
    IN  [i \in DOMAIN pre |-> pre[i].text]

\* C3: once the transport has opened, the frames passed to send before the
\* open are on the wire verbatim, in the order of the calls, right after the
\* registration frame and so before every frame sent after the open.
C3_QueuedFramesDeliveredInOrder ==
    connectionReady =>
        /\ Len(wire) >= 1 + Len(SentBeforeOpen)
        /\ SubSeq(WireTexts, 2, 1 + Len(SentBeforeOpen)) = SentBeforeOpen

\* C4: the first frame handed to a transport is the registration frame
\* {event: registerEvent, uuid}.
C4_RegistrationFirst ==
    wire # <<>> => IsRegistration(wire[1].text)

\* Frames were sent before the entry point, while connecting and after the
\* open, and the wire starts with the registration frame.
C4_Witness ==
    /\ Len(wire) >= 3
    /\ IsRegistration(wire[1].text)
    /\ \E i \in DOMAIN sendLog :
           sendLog[i].state = "NONE" /\ ~IsRegistration(sendLog[i].text)
    /\ \E i \in DOMAIN sendLog : sendLog[i].state = "CONNECTING"
    /\ \E i \in DOMAIN sendLog :
           sendLog[i].state = "OPEN" /\ sendLog[i].text[2] = "setSettings"

\* C5: a call of send by plugin code transmits the frame when the transport
\* is Open, and in every other transport state appends it to the outgoing
\* queue without raising an error.
C5_SendTransmitsOrQueues ==
    last.op = "send" =>
        LET call == sendLog[Len(sendLog)]
        IN  IF call.state = "OPEN"
            THEN /\ wire # <<>>
                 /\ wire[Len(wire)].text = call.text
                 /\ ~last.threw
            ELSE /\ cachedEvents # <<>>
                 /\ cachedEvents[Len(cachedEvents)] = call.text
                 /\ ~last.threw

----------------------------------------------------------------------------
(* C6 *)

\* The handler that ran last delivered a frame and forwarded it to the router.
Dispatched ==
    /\ last.op = "message"
    /\ LogOf("emit", last.arg.event) # <<>>

\* How often the handler of the i-th subscription of the frame's event fired.
Fired(i) ==
    Len(SelectSeq(LogOf("fire", last.arg.event), LAMBDA x : x.idx = i))

\* C6 as amended: a subscriber's handler is invoked exactly once if the
\* frame carries no action, or carries the empty string or the wildcard
\* marker as its action, or the filter is the wildcard marker, or the filter
\* equals the frame's action; and zero times otherwise.
C6_FilterDecidesFiring ==
    Dispatched =>
        \A i \in DOMAIN registeredEvents[last.arg.event] :
            LET f == registeredEvents[last.arg.event][i].actionName
                a == last.arg.action
            IN  Fired(i) = IF \/ a \in {Undefined, "", WildcardMarker}
                              \/ f = WildcardMarker
                              \/ f = a
                           THEN 1 ELSE 0

\* C6 as claimed: the handler is invoked exactly once if the frame carries
\* no action, or the filter is the wildcard marker, or the filter equals the
\* frame's action; and zero times otherwise.
C6_AsClaimed ==
    Dispatched =>
        \A i \in DOMAIN registeredEvents[last.arg.event] :
            LET f == registeredEvents[last.arg.event][i].actionName
                a == last.arg.action
            IN  Fired(i) = IF \/ a = Undefined
                              \/ f = WildcardMarker
                              \/ f = a
                           THEN 1 ELSE 0

\* A keyDown frame for action a2 met a subscription filtered to a1, which
\* stayed silent, and a wildcard subscription, which fired once.
C6_Witness ==
    /\ Dispatched
    /\ last.arg.event = "keyDown"
    /\ last.arg.action = "a2"
    /\ Len(registeredEvents["keyDown"]) = 2
    /\ registeredEvents["keyDown"][1].actionName = "a1"
    /\ registeredEvents["keyDown"][2].actionName = WildcardMarker
    /\ Fired(1) = 0
    /\ Fired(2) = 1

\* The exact filter fires for its own action and for a frame without action.
C6_WitnessExact ==
    /\ Dispatched
    /\ last.arg.action = "a1"
    /\ \E i \in DOMAIN registeredEvents["keyDown"] :
           registeredEvents["keyDown"][i].actionName = "a1" /\ Fired(i) = 1

C6_WitnessNoAction ==
    /\ Dispatched
    /\ last.arg.event = "keyDown"
    /\ last.arg.action = Undefined
    /\ \E i \in DOMAIN registeredEvents["keyDown"] :
           registeredEvents["keyDown"][i].actionName = "a1" /\ Fired(i) = 1

----------------------------------------------------------------------------
(* C7 *)

\* C7: the delivery of a frame that does not parse raises inside the
\* handler before anything is done: it changes none of the flags, latches,
\* subscriptions, queue, transports, wire or notifications and invokes no
\* callback.  What the handler does with a frame depends on these alone, so
\* every frame delivered afterwards is handled as if it had not arrived.
C7_MalformedFrameDropped ==
    [][(last'.op = "message" /\ last'.arg.text = "malformed") =>
          /\ UNCHANGED <<progVars, wire, sendLog, emitted>>
          /\ last'.log = <<>>]_vars

\* A frame that does not parse was just dropped after the settings arrived:
\* the transport is still open and a keyDown subscriber is still registered.
C7_Witness ==
    /\ last.op = "message"
    /\ last.arg.text = "malformed"
    /\ last.threw
    /\ ws # 0
    /\ sockets[ws] = "OPEN"
    /\ globalSettingsReady
    /\ registeredEvents["keyDown"] # <<>>

----------------------------------------------------------------------------
(* C8 *)

\* C8: each readiness flag and each latch, once true, is true in every
\* later state.
C8_FlagsMonotonic ==
    [][/\ documentReady => documentReady'
       /\ connectionReady => connectionReady'
       /\ globalSettingsReady => globalSettingsReady'
       /\ documentReadyInvoked => documentReadyInvoked'
       /\ connectionReadyInvoked => connectionReadyInvoked'
       /\ globalSettingsInvoked => globalSettingsInvoked'
       /\ onReadyInvoked => onReadyInvoked']_vars

\* The transport closed after setupReady: every flag and latch is still true.
C8_Witness ==
    /\ sockets = <<"CLOSED">>
    /\ Count("connectionClosed") = 1
    /\ connectionReady /\ documentReady /\ globalSettingsReady
    /\ connectionReadyInvoked /\ documentReadyInvoked
    /\ globalSettingsInvoked /\ onReadyInvoked

----------------------------------------------------------------------------
(* C9 *)

\* C9: every call of callEvents for event e invokes the callbacks registered
\* for e, each once and in registration order, and no callback of another
\* event.
C9_AllCallbacksInOrder ==
    \A e \in EventNames :
        LET calls == LogOf("call", e)
        IN  IF LogOf("emit", e) = <<>>
            THEN calls = <<>>
            ELSE /\ Len(calls) = Len(registeredEvents[e])
                 /\ \A i \in DOMAIN calls : calls[i].idx = i

\* The part of C9 about the table: lists only grow at the end.
C9_AppendOnly ==
    [][\A e \in EventNames :
          /\ Len(registeredEvents'[e]) >= Len(registeredEvents[e])
          /\ SubSeq(registeredEvents'[e], 1, Len(registeredEvents[e]))
                 = registeredEvents[e]]_vars

----------------------------------------------------------------------------
(* C10 *)

Closed == {i \in DOMAIN sockets : sockets[i] = "CLOSED"}

\* C10: connectionClosed is emitted exactly once for the transport that
\* closed, and once the transport is closed it stays the only transport and
\* stays closed: no new transport is created, no retry is attempted and no
\* further connectionClosed is emitted.
C10_ClosedOnceAndTerminal ==
    /\ Count("connectionClosed") = Cardinality(Closed)
    /\ Closed # {} => (sockets = <<"CLOSED">> /\ ws = 1)

\* After the close plugin code called send: the transport is still the
\* closed one and connectionClosed was emitted once.
C10_Witness ==
    /\ sockets = <<"CLOSED">>
    /\ connectionReady
    /\ last.op = "send"
    /\ Count("connectionClosed") = 1

----------------------------------------------------------------------------
(* C11 *)

\* C11: every inbound frame that parses is forwarded to the router exactly
\* once, as callEvents(frame.event, frame.action ?? '*', frame), whatever
\* the frame is, the reserved settings frame included.
C11_EveryParsedFrameForwarded ==
    (last.op = "message" /\ last.arg.text = "json") =>
        LogOf("emit", last.arg.event) =
            <<LogEntry("emit", last.arg.event, 0, ForwardedAction(last.arg))>>

\* What does hold: every frame that parses is forwarded exactly once unless
\* it is the reserved settings frame without a payload.
C11_ForwardedUnlessPayloadMissing ==
    (/\ last.op = "message"
     /\ last.arg.text = "json"
     /\ ~(/\ last.arg.event = "didReceiveGlobalSettings"
          /\ last.arg.payload = Undefined)) =>
        LogOf("emit", last.arg.event) =
            <<LogEntry("emit", last.arg.event, 0, ForwardedAction(last.arg))>>

----------------------------------------------------------------------------
(* C12 *)

\* C12: whenever the transport is open (the handler run on open has
\* finished, as every handler has between two steps) the outgoing queue is
\* empty.
C12_QueueEmptyWhileOpen ==
    (ws # 0 /\ sockets[ws] = "OPEN") => cachedEvents = <<>>

----------------------------------------------------------------------------
(* C13 *)

IsSettingsRequest(text) == text[2] = "getGlobalSettings" /\ text[3] = Uuid

\* The positions of the wire that hold a getGlobalSettings frame.
SettingsRequests == {k \in DOMAIN wire : wire[k].text[2] = "getGlobalSettings"}

\* C13: once the transport has opened, the wire starts with the
\* registration frame, then holds the queued frames in their order, and
\* holds exactly one getGlobalSettings request, with context = uuid, after
\* all of them; when the open handler returns that request is the last
\* frame on the wire.
C13_OpenSequence ==
    connectionReady =>
        LET n == Len(cachedEvents)
        IN  /\ Len(wire) >= n + 2
            /\ IsRegistration(wire[1].text)
            /\ \A k \in 1..n : wire[k + 1].text = cachedEvents[k]
            /\ Cardinality(SettingsRequests) = 1
            /\ \A k \in SettingsRequests :
                   k > n + 1 /\ IsSettingsRequest(wire[k].text)
            /\ last.op = "open" =>
                   ~last.threw /\ Len(wire) \in SettingsRequests

\* An open that resent two queued frames and ran a connectionOpened
\* subscriber that sent one more before the settings request.
C13_Witness ==
    /\ last.op = "open"
    /\ Len(cachedEvents) = 2
    /\ Len(wire) = 5
    /\ wire[4].text[2] = "logMessage"
    /\ IsSettingsRequest(wire[5].text)

----------------------------------------------------------------------------
(* C14 *)

\* The last handler forwarded a reserved settings frame.
SettingsFrameForwarded ==
    /\ last.op = "message"
    /\ last.arg.text = "json"
    /\ last.arg.event = "didReceiveGlobalSettings"
    /\ LogOf("emit", "didReceiveGlobalSettings") # <<>>

\* The positions of the last handler's log where event e was emitted.
EmitPositions(e) ==
    {k \in DOMAIN last.log : last.log[k].t = "emit" /\ last.log[k].event = e}

\* C14: when a reserved settings frame is forwarded to the subscribers of
\* didReceiveGlobalSettings, its payload has been handed to the cache,
\* globalSettingsReady is set, globalSettingsAvailable has been emitted, and
\* setupReady too when it is due; whatever lifecycle notification the
\* handler emits, it emits before it forwards the frame.
C14_SettingsCachedBeforeForward ==
    SettingsFrameForwarded =>
        /\ globalSettings = last.arg.payload
        /\ globalSettingsReady
        /\ globalSettingsInvoked
        /\ Count("globalSettingsAvailable") = 1
        /\ (documentReady /\ connectionReady) => Count("setupReady") = 1
        /\ \A n \in Notifications :
               \A k \in EmitPositions(n) :
                   \A j \in EmitPositions("didReceiveGlobalSettings") : k < j

\* The first settings frame, with the two other flags set: the handler
\* emitted globalSettingsAvailable and setupReady and then called a
\* subscriber of didReceiveGlobalSettings.
C14_Witness ==
    /\ SettingsFrameForwarded
    /\ EmitPositions("globalSettingsAvailable") # {}
    /\ EmitPositions("setupReady") # {}
    /\ LogOf("fire", "didReceiveGlobalSettings") # <<>>

----------------------------------------------------------------------------
(* C15 *)

\* C15: when the entry point returns, documentReady is not set and
\* documentLoaded has not been emitted: the callback handed to _docReady is
\* pending, as a timer when the document is past loading and as a
\* DOMContentLoaded listener otherwise.  It stays pending until
\* documentReady is set, and documentLoaded is emitted exactly when
\* documentReady is set, once, however the deferred step interleaves with
\* the open and the inbound frames.
C15_DocumentReadyDeferred ==
    /\ last.op = "connect" =>
           /\ ~documentReady
           /\ Count("documentLoaded") = 0
           /\ IF docState = "loading"
              THEN listeners = 1 /\ timers = 0
              ELSE timers = 1 /\ listeners = 0
    /\ (sockets # <<>> /\ ~documentReady) => timers + listeners >= 1
    /\ Count("documentLoaded") = (IF documentReady THEN 1 ELSE 0)

\* The timer started by the entry point fired after the open and after a
\* settings frame, and documentLoaded was emitted in it, once.
C15_Witness ==
    /\ last.op = "timer"
    /\ connectionReady
    /\ globalSettingsReady
    /\ documentReady
    /\ EmitPositions("documentLoaded") # {}
    /\ Count("documentLoaded") = 1

\* The same through the DOMContentLoaded listener, before the open.
C15_WitnessListener ==
    /\ last.op = "DOMContentLoaded"
    /\ ~connectionReady
    /\ documentReady
    /\ Count("documentLoaded") = 1

----------------------------------------------------------------------------
(* C16 *)

\* C16: a subscription setup called with an action filter that is not a
\* string raises and leaves the subscription table as it was; the table
\* never holds a wrapper with such a filter.
C16_NonStringFilterRejected ==
    /\ [](\A e \in EventNames :
              \A i \in DOMAIN registeredEvents[e] :
                  typeof(registeredEvents[e][i].actionName) = "string")
    /\ [][(/\ last'.op = "eventListener"
           /\ typeof(last'.arg.action) # "string")
          => (last'.threw /\ registeredEvents' = registeredEvents)]_vars

\* A setup with a non-string filter raised after another one had
\* registered a wrapper, which is still the only one.
C16_Witness ==
    /\ last.op = "eventListener"
    /\ typeof(last.arg.action) # "string"
    /\ last.threw
    /\ NumSubs = 1

----------------------------------------------------------------------------
(* C17 *)

AllFlags == documentReady /\ connectionReady /\ globalSettingsReady

\* C17: in every state between two handlers, if the three readiness flags
\* are set then setupReady has been emitted; the handler that sets the last
\* of the three flags is the one that emits it.
C17_SetupReadyWithThirdFlag ==
    /\ [](AllFlags => (onReadyInvoked /\ Count("setupReady") >= 1))
    /\ [][(~AllFlags /\ AllFlags') =>
          (\E k \in DOMAIN last'.log :
               /\ last'.log[k].t = "emit"
               /\ last'.log[k].event = "setupReady")]_vars

\* The document became ready last, in a timer, and that handler emitted
\* setupReady.
C17_Witness ==
    /\ last.op = "timer"
    /\ AllFlags
    /\ EmitPositions("setupReady") # {}

\* The settings frame arrived last and its handler emitted setupReady.
C17_WitnessSettingsLast ==
    /\ last.op = "message"
    /\ AllFlags
    /\ EmitPositions("documentLoaded") = {}
    /\ EmitPositions("setupReady") # {}

----------------------------------------------------------------------------
(* C19 *)

\* C19: a handler that receives an inbound frame runs after connectionOpened
\* was emitted, by an earlier handler; globalSettingsAvailable and
\* setupReady are emitted after connectionOpened only, and setupReady only
\* once the transport has opened.
C19_ConnectionOpenedFirst ==
    /\ last.op = "message" =>
           /\ connectionReadyInvoked
           /\ Count("connectionOpened") = 1
           /\ EmitPositions("connectionOpened") = {}
    /\ \A i \in DOMAIN emitted :
           emitted[i] \in {"globalSettingsAvailable", "setupReady"} =>
               EmittedBefore("connectionOpened", i)
    /\ Count("setupReady") >= 1 =>
           /\ connectionReady
           /\ \E i \in DOMAIN sockets : sockets[i] # "CONNECTING"

\* A frame reached a subscriber, and globalSettingsAvailable and setupReady
\* were emitted, all after connectionOpened.
C19_Witness ==
    /\ last.op = "message"
    /\ last.arg.text = "json"
    /\ LogOf("fire", last.arg.event) # <<>>
    /\ Count("connectionOpened") = 1
    /\ Count("globalSettingsAvailable") = 1
    /\ Count("setupReady") = 1

----------------------------------------------------------------------------
(* C18 *)

\* A subscriber whose handler throws fired in the last handler.
RaisedInDispatch ==
    \E k \in DOMAIN last.log :
        /\ last.log[k].t = "fire"
        /\ Registered(last.log[k].event)[last.log[k].idx].act = "throw"

\* C18: when a subscriber raises during a dispatch, every callback
\* registered for each event the handler emitted has still been called, an
\* open has still ended with the getGlobalSettings request, and setupReady
\* has still been emitted if the three flags are set.
C18_RaisingSubscriberIsolated ==
    RaisedInDispatch =>
        /\ \A k \in DOMAIN last.log :
               last.log[k].t = "emit" =>
                   Len(LogOf("call", last.log[k].event)) =
                       Len(Registered(last.log[k].event))
        /\ last.op = "open" =>
               wire # <<>> /\ IsSettingsRequest(wire[Len(wire)].text)
        /\ AllFlags => Count("setupReady") >= 1

----------------------------------------------------------------------------
(* C20 *)

\* C20: every frame passed to send is handed to a transport at most once
\* (each call of send makes a text of its own), however often the entry
\* point is invoked and a transport opens.
C20_TransmittedAtMostOnce ==
    \A i, j \in DOMAIN wire : wire[i].text = wire[j].text => i = j

====
